---- MODULE Spec2Model ----
(***************************************************************************)
(* Toradex U-Boot secure-boot hardening: trust-state resolver              *)
(* (tdx-secboot.c, tdx-hab-utils.c), hardening policy evaluator, CLI       *)
(* access gate, lockdown executor and boot-argument validator              *)
(* (tdx-harden.c).                                                         *)
(*                                                                         *)
(* C strings are sequences of one-character strings without the closing    *)
(* NUL; a char pointer into a string is the suffix it points to.           *)
(***************************************************************************)
EXTENDS Integers, Sequences, FiniteSets, TLC

(***************************************************************************)
(* Bounds of the model.                                                    *)
(***************************************************************************)
\* fragments concatenated to form the variable tail of a command line
MaxCmdFrags == 3
\* fragments concatenated to form a required-bootargs property
MaxReqFrags == 3
\* characters of a value handed to the single-argument check
MaxValLen == 3
\* attempts of the HAB enable-bit query the hardware oracle answers
MaxQueries == 2

(***************************************************************************)
(* C library: <linux/ctype.h>, <linux/string.h>.                           *)
(***************************************************************************)
NUL == "NUL"
\* a NULL char pointer: no C string, whose elements are single characters
NULL == <<"NULL">>

Digits == {"0", "1", "2", "3", "4", "5", "6", "7", "8", "9"}
HexLetters == {"a", "b", "c", "d", "e", "f", "A", "B", "C", "D", "E", "F"}
Letters == {"a", "b", "c", "d", "e", "f", "g", "h", "i", "j", "k", "l", "m",
            "n", "o", "p", "q", "r", "s", "t", "u", "v", "w", "x", "y", "z",
            "A", "B", "C", "D", "E", "F", "G", "H", "I", "J", "K", "L", "M",
            "N", "O", "P", "Q", "R", "S", "T", "U", "V", "W", "X", "Y", "Z"}

isspace(c) == c \in {" ", "\t", "\n", "\r", "\f"}
isdigit(c) == c \in Digits
isxdigit(c) == c \in Digits \cup HexLetters
isalnum(c) == c \in Digits \cup Letters

\* *p for a char pointer p: the first character, NUL at the end of the string
Deref(p) == IF Len(p) = 0 THEN NUL ELSE p[1]

\* p + n
Advance(p, n) == SubSeq(p, n + 1, Len(p))

\* the first n characters of s (all of s when it is shorter): "%.ns"
Take(s, n) == SubSeq(s, 1, IF Len(s) < n THEN Len(s) ELSE n)

RECURSIVE skip_spaces(_)
skip_spaces(s) == IF isspace(Deref(s)) THEN skip_spaces(Tail(s)) ELSE s

\* strncmp(a, b, n) = 0
StrnEq(a, b, n) == Take(a, n) = Take(b, n)

\* strstr(h, n): the index in h of the first occurrence of n, 0 for NULL
strstr(h, n) ==
    LET hits == {i \in 1..(Len(h) - Len(n) + 1) : SubSeq(h, i, i + Len(n) - 1) = n}
    IN  IF hits = {} THEN 0 ELSE CHOOSE i \in hits : \A j \in hits : i <= j

(***************************************************************************)
(* String literals of the sources.                                         *)
(***************************************************************************)
S_ostree == <<"o", "s", "t", "r", "e", "e", "=">>
S_root == <<"r", "o", "o", "t", "=">>
S_root_partuuid == <<"r", "o", "o", "t", "=", "P", "A", "R", "T", "U", "U", "I", "D", "=">>

(***************************************************************************)
(* Boot-argument grammar table, tdx-harden.c.                              *)
(***************************************************************************)
BPARAM_TYPES == {"BPARAM_NONE", "BPARAM_INTEGER", "BPARAM_OSTREE_PATH", "BPARAM_GENERIC_UUID"}

bootarg_spec ==
    << [param |-> S_ostree, type |-> "BPARAM_OSTREE_PATH", conflict |-> NULL],
       [param |-> S_root_partuuid, type |-> "BPARAM_GENERIC_UUID", conflict |-> S_root] >>

BOOTARG_SPEC_LEN == Len(bootarg_spec)

\* the "%.16s..." preview of the diagnostics
PREVIEW_LEN == 16

\* the characters a value of the given type may consist of
ValueChar(type, c) ==
    CASE type = "BPARAM_INTEGER" -> isdigit(c)
      [] type = "BPARAM_OSTREE_PATH" -> isalnum(c) \/ c = "/" \/ c = "."
      [] type = "BPARAM_GENERIC_UUID" -> isxdigit(c) \/ c = "-"
      [] OTHER -> FALSE

\* the while (...) valp++ loops: valp after the scan
RECURSIVE ScanValue(_, _)
ScanValue(type, valp) ==
    IF ValueChar(type, Deref(valp)) THEN ScanValue(type, Tail(valp)) ELSE valp

\* mutant: the character after the value is not looked at
_tdx_valid_var_bootarg_NoEndCheck(value, type) ==
    IF type \notin BPARAM_TYPES
    THEN [ret |-> 0, eptr |-> NULL]
    ELSE LET valp == IF type = "BPARAM_NONE" THEN value ELSE ScanValue(type, value)
         IN  IF type # "BPARAM_NONE" /\ valp = value
             THEN [ret |-> 0, eptr |-> NULL]
             ELSE [ret |-> 1, eptr |-> valp]

\* _tdx_valid_var_bootarg(value, type, &eptr): ret and, when ret = 1, eptr
_tdx_valid_var_bootarg(value, type) ==
    IF type \notin BPARAM_TYPES
    THEN [ret |-> 0, eptr |-> NULL]
    ELSE LET valp == IF type = "BPARAM_NONE" THEN value ELSE ScanValue(type, value)
         IN  IF type # "BPARAM_NONE" /\ valp = value
             THEN [ret |-> 0, eptr |-> NULL]
             ELSE IF Deref(valp) = NUL \/ isspace(Deref(valp))
                  THEN [ret |-> 1, eptr |-> valp]
                  ELSE [ret |-> 0, eptr |-> NULL]

\* the for loop over the table: the index of the first entry whose param
\* matches at args, BOOTARG_SPEC_LEN + 1 when none does
RECURSIVE MatchSpec(_, _)
MatchSpec(args, bi) ==
    IF bi > BOOTARG_SPEC_LEN THEN bi
    ELSE IF StrnEq(args, bootarg_spec[bi].param, Len(bootarg_spec[bi].param))
         THEN bi
         ELSE MatchSpec(args, bi + 1)

\* the conflict check of one table entry against the required arguments
ConflictFound(reqargs, conflict) ==
    LET reqptr == strstr(reqargs, conflict)
    IN  IF reqptr = 1 THEN TRUE
        ELSE IF reqptr > 1 THEN isspace(reqargs[reqptr - 1])
        ELSE FALSE

\* mutant: an entry whose value check fails is passed over, and the search
\* of the table goes on to its end
VarBootargsIter_Fallback(args, reqargs) ==
    LET bi == MatchSpec(args, 1)
        bad == [ok |-> FALSE, kind |-> "UnexpectedArgument", sub |-> Take(args, PREVIEW_LEN), args |-> args]
    IN  IF bi > BOOTARG_SPEC_LEN
        THEN bad
        ELSE LET value == Advance(args, Len(bootarg_spec[bi].param))
                 r == _tdx_valid_var_bootarg(value, bootarg_spec[bi].type)
             IN  IF r.ret = 0
                 THEN bad
                 ELSE IF bootarg_spec[bi].conflict # NULL
                         /\ ConflictFound(reqargs, bootarg_spec[bi].conflict)
                      THEN [ok |-> FALSE, kind |-> "ConflictingArgument", sub |-> Take(args, PREVIEW_LEN), args |-> args]
                      ELSE [ok |-> TRUE, kind |-> "None", sub |-> <<>>, args |-> skip_spaces(r.eptr)]

\* mutant: an accepted argument leaves args where it was
VarBootargsIter_NoAdvance(args, reqargs) ==
    LET bi == MatchSpec(args, 1)
    IN  IF bi > BOOTARG_SPEC_LEN
        THEN [ok |-> FALSE, kind |-> "UnexpectedArgument", sub |-> Take(args, PREVIEW_LEN), args |-> args]
        ELSE LET value == Advance(args, Len(bootarg_spec[bi].param))
                 r == _tdx_valid_var_bootarg(value, bootarg_spec[bi].type)
             IN  IF r.ret = 0
                 THEN [ok |-> FALSE, kind |-> "GrammarMismatch", sub |-> Take(args, PREVIEW_LEN), args |-> args]
                 ELSE IF bootarg_spec[bi].conflict # NULL
                         /\ ConflictFound(reqargs, bootarg_spec[bi].conflict)
                      THEN [ok |-> FALSE, kind |-> "ConflictingArgument", sub |-> Take(args, PREVIEW_LEN), args |-> args]
                      ELSE [ok |-> TRUE, kind |-> "None", sub |-> <<>>, args |-> args]

\* one iteration of the while (*args) loop of _tdx_valid_var_bootargs
VarBootargsIter(args, reqargs) ==
    LET bi == MatchSpec(args, 1)
    IN  IF bi > BOOTARG_SPEC_LEN
        THEN [ok |-> FALSE, kind |-> "UnexpectedArgument", sub |-> Take(args, PREVIEW_LEN), args |-> args]
        ELSE LET value == Advance(args, Len(bootarg_spec[bi].param))
                 r == _tdx_valid_var_bootarg(value, bootarg_spec[bi].type)
             IN  IF r.ret = 0
                 THEN [ok |-> FALSE, kind |-> "GrammarMismatch", sub |-> Take(args, PREVIEW_LEN), args |-> args]
                 ELSE IF bootarg_spec[bi].conflict # NULL
                         /\ ConflictFound(reqargs, bootarg_spec[bi].conflict)
                      THEN [ok |-> FALSE, kind |-> "ConflictingArgument", sub |-> Take(args, PREVIEW_LEN), args |-> args]
                      ELSE [ok |-> TRUE, kind |-> "None", sub |-> <<>>, args |-> skip_spaces(r.eptr)]

\* what the eprintf() diagnostics of the validator say: the failure and the
\* preview of the offending text
NoDiag == [kind |-> "None", sub |-> <<>>]

\* mutant: the leading whitespace of the command line is not skipped
FirstPart_NoTrim(args, req_args) ==
    LET req_len == Len(req_args)
    IN  IF req_len # 0
        THEN IF ~StrnEq(args, req_args, req_len)
             THEN [ok |-> FALSE, args |-> args]
             ELSE [ok |-> TRUE, args |-> Advance(args, req_len)]
        ELSE [ok |-> TRUE, args |-> args]

\* mutant: the comparison takes one character less than the required length
FirstPart_ShortCompare(args, req_args) ==
    LET req_len == Len(req_args)
    IN  IF req_len # 0
        THEN LET trimmed == skip_spaces(args)
             IN  IF ~StrnEq(trimmed, req_args, req_len - 1)
                 THEN [ok |-> FALSE, args |-> trimmed]
                 ELSE [ok |-> TRUE, args |-> Advance(trimmed, req_len - 1)]
        ELSE [ok |-> TRUE, args |-> args]

\* tdx_valid_bootargs, "First part of bootargs must match required property"
FirstPart(args, req_args) ==
    LET req_len == Len(req_args)
    IN  IF req_len # 0
        THEN LET trimmed == skip_spaces(args)
             IN  IF ~StrnEq(trimmed, req_args, req_len)
                 THEN [ok |-> FALSE, args |-> trimmed]
                 ELSE [ok |-> TRUE, args |-> Advance(trimmed, req_len)]
        ELSE [ok |-> TRUE, args |-> args]

\* mutant: no whitespace is required after the fixed part
SecondPart_NoBoundary(args, req_args) ==
    IF Deref(args) # NUL
    THEN [ok |-> TRUE, args |-> skip_spaces(args)]
    ELSE [ok |-> TRUE, args |-> args]

\* tdx_valid_bootargs, "Second part (if any) is variable"
SecondPart(args, req_args) ==
    LET req_len == Len(req_args)
    IN  IF Deref(args) # NUL
        THEN IF req_len # 0 /\ ~isspace(Deref(args))
             THEN [ok |-> FALSE, args |-> args]
             ELSE [ok |-> TRUE, args |-> skip_spaces(args)]
        ELSE [ok |-> TRUE, args |-> args]

(***************************************************************************)
(* State.                                                                  *)
(***************************************************************************)
VARIABLES
    \* build configuration
    CONFIG_HAB,          \* "IMX_HAB", "AHAB_BOOT" or "NONE" (neither is set)
    CONFIG_DBG,          \* CONFIG_TDX_SECBOOT_HARDENING_DBG
    \* hardware, as the secure-boot controller answers
    imx_hab_rets,        \* imx_hab_is_enabled(): the answer to the n-th attempt
    seco_ret,            \* sc_seco_chip_info(): its return value
    seco_lc,             \* sc_seco_chip_info(): the lifecycle code it stores
    \* control device tree
    gd_fdt_blob,         \* gd->fdt_blob: NULL or the tree
    \* debug overrides
    dbg_hab_status,      \* tdx-secboot.c
    dbg_hdn_status,      \* tdx-harden.c
    \* the most recent call of a command or query and what it gave
    last,
    \* lockdown executor, tdx_secure_boot_cmd
    sb_pc, sb_cmd, sb_rc, ctrlc_disabled, panic_msg,
    \* boot-argument validator, tdx_valid_bootargs
    v_pc, v_fdt, v_bootargs, v_req, v_args, v_ret, v_diag,
    \* a direct call of _tdx_valid_var_bootarg
    a_value, a_type, a_res

cfg_vars == <<CONFIG_HAB, CONFIG_DBG>>
hw_vars == <<imx_hab_rets, seco_ret, seco_lc>>
dbg_vars == <<dbg_hab_status, dbg_hdn_status>>
sb_vars == <<sb_pc, sb_cmd, sb_rc, ctrlc_disabled, panic_msg>>
v_vars == <<v_pc, v_fdt, v_bootargs, v_req, v_args, v_ret, v_diag>>
a_vars == <<a_value, a_type, a_res>>
vars == <<cfg_vars, hw_vars, gd_fdt_blob, dbg_vars, last, sb_vars, v_vars, a_vars>>

(***************************************************************************)
(* Flattened device tree: whether the blob pointer is set, and a function   *)
(* from the paths of its nodes to their properties, each a function from   *)
(* property names to values.                                               *)
(***************************************************************************)
NoNodes == [p \in {} |-> [n \in {} |-> <<>>]]
NO_FDT == [present |-> FALSE, nodes |-> NoNodes]
TDX_SECBOOT_NODE_PATH == "/chosen/toradex,secure-boot"
TDX_BOOTARGS_NODE_PATH == "/chosen/toradex,secure-boot"

\* fdt_path_offset(): an offset >= 0, or a negative error (-FDT_ERR_NOTFOUND)
fdt_path_offset(fdt, path) == IF path \in DOMAIN fdt.nodes THEN 0 ELSE -1

\* fdt_getprop() on the node found at path: the value, or NULL
fdt_getprop(fdt, path, name) ==
    IF name \in DOMAIN fdt.nodes[path] THEN fdt.nodes[path][name] ELSE NULL

(***************************************************************************)
(* Trust state resolver, tdx-secboot.c and tdx-hab-utils.c.                *)
(***************************************************************************)
\* imx_hab_is_enabled(), asked for the n-th time
imx_hab_is_enabled(n) == imx_hab_rets[n]

\* mutant: NXP closed (0x20) is treated like OEM closed
LifecycleIsOpen_NxpClosed(lc) == IF lc \in {32, 128} THEN 0 ELSE 1

\* the switch (lc) of the AHAB branch
LifecycleIsOpen(lc) ==
    CASE lc \in {1, 2, 8} -> 1          \* 0x1 pristine, 0x2 fab, 0x8 open: break
      [] lc = 32 -> 1                   \* 0x20 NXP closed: break
      [] lc = 128 -> 0                  \* 0x80 OEM closed: return 0
      [] lc \in {256, 512, 1024} -> 1   \* 0x100, 0x200, 0x400 field return: return 1
      [] OTHER -> 1                     \* unknown: break

\* mutant: a failed fuse read (negative answer) is asked again
_tdx_secboot_dev_is_open_Retry ==
    CASE CONFIG_HAB = "IMX_HAB" ->
            LET first == imx_hab_is_enabled(1)
                answer == IF first < 0 THEN imx_hab_is_enabled(2) ELSE first
            IN  IF answer # 0 THEN 0 ELSE 1
      [] CONFIG_HAB = "AHAB_BOOT" -> IF seco_ret # 0 THEN 0 ELSE LifecycleIsOpen(seco_lc)
      [] OTHER -> 1

\* static int _tdx_secboot_dev_is_open(void), tdx-secboot.c
_tdx_secboot_dev_is_open ==
    CASE CONFIG_HAB = "IMX_HAB" -> IF imx_hab_is_enabled(1) # 0 THEN 0 ELSE 1
      [] CONFIG_HAB = "AHAB_BOOT" -> IF seco_ret # 0 THEN 0 ELSE LifecycleIsOpen(seco_lc)
      [] OTHER -> 1

\* static int tdx_secboot_dev_is_open(void), tdx-hab-utils.c
hab_utils_dev_is_open ==
    CASE CONFIG_HAB = "IMX_HAB" -> IF imx_hab_is_enabled(1) # 0 THEN 0 ELSE 1
      [] CONFIG_HAB = "AHAB_BOOT" -> IF seco_ret # 0 THEN 0 ELSE LifecycleIsOpen(seco_lc)
      [] OTHER -> 1

\* int tdx_secboot_dev_is_open(void), tdx-secboot.c
tdx_secboot_dev_is_open ==
    LET dev_open == _tdx_secboot_dev_is_open
    IN  IF CONFIG_DBG /\ dbg_hab_status = "DBG_HAB_STATUS_OPEN" THEN 1
        ELSE IF CONFIG_DBG /\ dbg_hab_status = "DBG_HAB_STATUS_CLOSED" THEN 0
        ELSE dev_open

(***************************************************************************)
(* Hardening policy evaluator and CLI access gate, tdx-harden.c.           *)
(***************************************************************************)
\* mutant: a "disabled" property without a value does not disable
_tdx_hardening_enabled_EmptyIgnored ==
    IF ~gd_fdt_blob.present THEN 0
    ELSE IF fdt_path_offset(gd_fdt_blob, TDX_SECBOOT_NODE_PATH) < 0 THEN 0
    ELSE IF /\ fdt_getprop(gd_fdt_blob, TDX_SECBOOT_NODE_PATH, "disabled") # NULL
            /\ Len(fdt_getprop(gd_fdt_blob, TDX_SECBOOT_NODE_PATH, "disabled")) > 0 THEN 0
    ELSE 1

_tdx_hardening_enabled ==
    IF ~gd_fdt_blob.present THEN 0
    ELSE IF fdt_path_offset(gd_fdt_blob, TDX_SECBOOT_NODE_PATH) < 0 THEN 0
    ELSE IF fdt_getprop(gd_fdt_blob, TDX_SECBOOT_NODE_PATH, "disabled") # NULL THEN 0
    ELSE 1

tdx_hardening_enabled ==
    LET hdn_enabled == _tdx_hardening_enabled
    IN  IF CONFIG_DBG /\ dbg_hdn_status = "DBG_HDN_STATUS_ENABLED" THEN 1
        ELSE IF CONFIG_DBG /\ dbg_hdn_status = "DBG_HDN_STATUS_DISABLED" THEN 0
        ELSE hdn_enabled

\* mutant: the trust state is not consulted
tdx_cli_access_enabled_NoTrustCheck ==
    IF tdx_hardening_enabled = 0 THEN 1
    ELSE IF ~gd_fdt_blob.present THEN 1
    ELSE IF fdt_path_offset(gd_fdt_blob, TDX_SECBOOT_NODE_PATH) < 0 THEN 1
    ELSE IF fdt_getprop(gd_fdt_blob, TDX_SECBOOT_NODE_PATH, "enable-cli-when-closed") # NULL THEN 1
    ELSE 0

tdx_cli_access_enabled ==
    IF tdx_hardening_enabled = 0 THEN 1
    ELSE IF tdx_secboot_dev_is_open # 0 THEN 1
    ELSE IF ~gd_fdt_blob.present THEN 1
    ELSE IF fdt_path_offset(gd_fdt_blob, TDX_SECBOOT_NODE_PATH) < 0 THEN 1
    ELSE IF fdt_getprop(gd_fdt_blob, TDX_SECBOOT_NODE_PATH, "enable-cli-when-closed") # NULL THEN 1
    ELSE 0


(***************************************************************************)
(* The hardening command, tdx-harden.c, and tdx_is_closed, tdx-hab-utils.c.*)
(***************************************************************************)
CMD_RET == [SUCCESS |-> 0, FAILURE |-> 1, USAGE |-> -1]

DBG_HAB_STATUSES == {"DBG_HAB_STATUS_AUTO", "DBG_HAB_STATUS_OPEN", "DBG_HAB_STATUS_CLOSED"}
DBG_HDN_STATUSES == {"DBG_HDN_STATUS_AUTO", "DBG_HDN_STATUS_DISABLED", "DBG_HDN_STATUS_ENABLED"}

\* int tdx_secboot_set_hab_status(status): its return value and the override after it
tdx_secboot_set_hab_status(status) ==
    IF status \in DBG_HAB_STATUSES
    THEN [ret |-> 0, dbg_hab_status |-> status]
    ELSE [ret |-> 1, dbg_hab_status |-> dbg_hab_status]

\* static int set_hab_status(argc, argv), argv the words after the subcommand
set_hab_status(argv) ==
    IF Len(argv) < 1 THEN [ret |-> CMD_RET.USAGE, dbg_hab_status |-> dbg_hab_status]
    ELSE IF argv[1] \notin {"auto", "open", "closed"}
    THEN [ret |-> CMD_RET.USAGE, dbg_hab_status |-> dbg_hab_status]
    ELSE LET status == CASE argv[1] = "auto" -> "DBG_HAB_STATUS_AUTO"
                         [] argv[1] = "open" -> "DBG_HAB_STATUS_OPEN"
                         [] argv[1] = "closed" -> "DBG_HAB_STATUS_CLOSED"
             r == tdx_secboot_set_hab_status(status)
         IN  [ret |-> IF r.ret # 0 THEN CMD_RET.FAILURE ELSE CMD_RET.SUCCESS,
              dbg_hab_status |-> r.dbg_hab_status]

\* mutant: an unrecognised word puts the override back to auto
set_hardening_status_ResetOnUnknown(argv) ==
    IF Len(argv) < 1 THEN [ret |-> CMD_RET.USAGE, dbg_hdn_status |-> dbg_hdn_status]
    ELSE CASE argv[1] = "auto" -> [ret |-> CMD_RET.SUCCESS, dbg_hdn_status |-> "DBG_HDN_STATUS_AUTO"]
           [] argv[1] = "enabled" -> [ret |-> CMD_RET.SUCCESS, dbg_hdn_status |-> "DBG_HDN_STATUS_ENABLED"]
           [] argv[1] = "disabled" -> [ret |-> CMD_RET.SUCCESS, dbg_hdn_status |-> "DBG_HDN_STATUS_DISABLED"]
           [] OTHER -> [ret |-> CMD_RET.USAGE, dbg_hdn_status |-> "DBG_HDN_STATUS_AUTO"]

\* static int set_hardening_status(argc, argv)
set_hardening_status(argv) ==
    IF Len(argv) < 1 THEN [ret |-> CMD_RET.USAGE, dbg_hdn_status |-> dbg_hdn_status]
    ELSE CASE argv[1] = "auto" -> [ret |-> CMD_RET.SUCCESS, dbg_hdn_status |-> "DBG_HDN_STATUS_AUTO"]
           [] argv[1] = "enabled" -> [ret |-> CMD_RET.SUCCESS, dbg_hdn_status |-> "DBG_HDN_STATUS_ENABLED"]
           [] argv[1] = "disabled" -> [ret |-> CMD_RET.SUCCESS, dbg_hdn_status |-> "DBG_HDN_STATUS_DISABLED"]
           [] OTHER -> [ret |-> CMD_RET.USAGE, dbg_hdn_status |-> dbg_hdn_status]

\* static int show_hardening_info(void): the two status words it prints
show_hardening_info ==
    << IF tdx_hardening_enabled # 0 THEN "enabled" ELSE "disabled",
       IF tdx_secboot_dev_is_open # 0 THEN "open" ELSE "closed" >>

\* static int do_hardening(cmdtp, flag, argc, argv), argv[1] = "hardening"
do_hardening(argv) ==
    LET same == [ret |-> CMD_RET.USAGE, out |-> <<>>,
                 dbg_hab_status |-> dbg_hab_status, dbg_hdn_status |-> dbg_hdn_status]
    IN  IF Len(argv) < 2 THEN same
        ELSE LET str_cmd == argv[2]
                 rest == SubSeq(argv, 3, Len(argv))
             IN  IF str_cmd = "info"
                 THEN [same EXCEPT !.ret = CMD_RET.SUCCESS, !.out = show_hardening_info]
                 ELSE IF CONFIG_DBG /\ str_cmd = "set-hab-status"
                 THEN LET r == set_hab_status(rest)
                      IN  [same EXCEPT !.ret = r.ret, !.dbg_hab_status = r.dbg_hab_status]
                 ELSE IF CONFIG_DBG /\ str_cmd = "set-hdn-status"
                 THEN LET r == set_hardening_status(rest)
                      IN  [same EXCEPT !.ret = r.ret, !.dbg_hdn_status = r.dbg_hdn_status]
                 ELSE same

\* static int do_tdx_is_closed(cmdtp, flag, argc, argv), argv[1] = "tdx_is_closed"
do_tdx_is_closed(argv) ==
    IF Len(argv) # 1 THEN [ret |-> 1, out |-> <<"usage">>]
    ELSE LET retval == hab_utils_dev_is_open
         IN  [ret |-> retval,
              out |-> IF retval # 0 THEN <<"Device is open.">> ELSE <<"Device is closed.">>]

(***************************************************************************)
(* Inputs.                                                                 *)
(***************************************************************************)
\* answers of imx_hab_is_enabled(): a fuse read error, bit clear, bit set
HabRets == {-5, 0, 1}
\* return values of sc_seco_chip_info(): success and two errors
SecoRets == {0, -5, 3}
\* lifecycle codes: the eight the switch names and three it does not
LcCodes == {1, 2, 8, 32, 128, 256, 512, 1024, 0, 64, 65535}

NoProps == [n \in {} |-> <<>>]
Markers == {"disabled", "enable-cli-when-closed"}
MarkerValues == {<<>>, <<"1">>}
SecbootNodes == UNION {[S -> MarkerValues] : S \in SUBSET Markers}

ControlTrees ==
    {NO_FDT, [present |-> TRUE, nodes |-> ("/chosen" :> NoProps)]}
    \cup {[present |-> TRUE,
           nodes |-> ("/chosen" :> NoProps) @@ (TDX_SECBOOT_NODE_PATH :> props)]
          : props \in SecbootNodes}

HardeningArgvs ==
    {<<"hardening">>, <<"hardening", "info">>, <<"hardening", "bogus">>,
     <<"hardening", "set-hab-status">>, <<"hardening", "set-hdn-status">>}
    \cup {<<"hardening", "set-hab-status", a>> : a \in {"auto", "open", "closed", "enabled"}}
    \cup {<<"hardening", "set-hdn-status", a>> : a \in {"auto", "enabled", "disabled", "open"}}

IsClosedArgvs == {<<"tdx_is_closed">>, <<"tdx_is_closed", "x">>}

(***************************************************************************)
(* Initial states: the build, the hardware and the control tree of one     *)
(* boot; nothing has been called.                                          *)
(***************************************************************************)
Booted == [op |-> "boot", argv |-> <<>>, ret |-> 0, out |-> <<>>]

InitHw ==
    \/ /\ CONFIG_HAB = "IMX_HAB"
       /\ imx_hab_rets \in [1..MaxQueries -> HabRets]
       /\ seco_ret = 0 /\ seco_lc = 0
    \/ /\ CONFIG_HAB = "AHAB_BOOT"
       /\ imx_hab_rets = [n \in 1..MaxQueries |-> 0]
       /\ seco_ret \in SecoRets /\ seco_lc \in LcCodes
    \/ /\ CONFIG_HAB = "NONE"
       /\ imx_hab_rets = [n \in 1..MaxQueries |-> 0]
       /\ seco_ret = 0 /\ seco_lc = 0

InitIdle ==
    /\ dbg_hab_status = "DBG_HAB_STATUS_AUTO"
    /\ dbg_hdn_status = "DBG_HDN_STATUS_AUTO"
    /\ last = Booted
    /\ sb_pc = "caller" /\ sb_cmd = "" /\ sb_rc = 0
    /\ ctrlc_disabled = FALSE /\ panic_msg = <<>>
    /\ v_pc = "caller" /\ v_fdt = NO_FDT /\ v_bootargs = <<>> /\ v_req = NULL
    /\ v_args = <<>> /\ v_ret = -1 /\ v_diag = NoDiag
    /\ a_value = <<>> /\ a_type = "BPARAM_NONE" /\ a_res = [ret |-> -1, eptr |-> NULL]


Init ==
    /\ CONFIG_DBG \in BOOLEAN
    /\ InitHw
    /\ gd_fdt_blob \in ControlTrees
    /\ InitIdle

(***************************************************************************)
(* Actions: commands and queries at the prompt or in a boot script.        *)
(***************************************************************************)
\* a command runs at the prompt or in a script before tdx_secure_boot_cmd is
\* called, or inside its run_command_list(); never after the panic
Running == sb_pc \in {"caller", "run_command_list"}

CliAccess ==
    /\ Running
    /\ last' = [op |-> "tdx_cli_access_enabled", argv |-> <<>>,
                ret |-> tdx_cli_access_enabled, out |-> <<>>]
    /\ UNCHANGED <<cfg_vars, hw_vars, gd_fdt_blob, dbg_vars, sb_vars, v_vars, a_vars>>

Hardening ==
    /\ Running
    /\ \E argv \in HardeningArgvs :
          LET r == do_hardening(argv)
          IN  /\ dbg_hab_status' = r.dbg_hab_status
              /\ dbg_hdn_status' = r.dbg_hdn_status
              /\ last' = [op |-> "hardening", argv |-> argv, ret |-> r.ret, out |-> r.out]
    /\ UNCHANGED <<cfg_vars, hw_vars, gd_fdt_blob, sb_vars, v_vars, a_vars>>

TdxIsClosed ==
    /\ Running
    /\ CONFIG_HAB # "NONE"     \* tdx-hab-utils.c does not build otherwise (#error)
    /\ \E argv \in IsClosedArgvs :
          LET r == do_tdx_is_closed(argv)
          IN  last' = [op |-> "tdx_is_closed", argv |-> argv, ret |-> r.ret, out |-> r.out]
    /\ UNCHANGED <<cfg_vars, hw_vars, gd_fdt_blob, dbg_vars, sb_vars, v_vars, a_vars>>

Next == CliAccess \/ Hardening \/ TdxIsClosed

Spec == Init /\ [][Next]_vars

(***************************************************************************)
(* Lockdown executor: void tdx_secure_boot_cmd(const char *cmd), one       *)
(* action per statement.                                                   *)
(***************************************************************************)
LockdownCmds == {"run bootcmd", "bootm"}
\* results of run_command_list(): success, failure, and a negative error
RcCodes == {0, 1, -1}

\* entry and the printf
SecureBootCmdEnter ==
    /\ sb_pc = "caller"
    /\ \E cmd \in LockdownCmds : sb_cmd' = cmd
    /\ sb_pc' = "disable_ctrlc"
    /\ UNCHANGED <<cfg_vars, hw_vars, gd_fdt_blob, dbg_vars, last, sb_rc, ctrlc_disabled,
                   panic_msg, v_vars, a_vars>>

\* disable_ctrlc(1)
SecureBootCmdDisableCtrlc ==
    /\ sb_pc = "disable_ctrlc"
    /\ ctrlc_disabled' = TRUE
    /\ sb_pc' = "run_command_list"
    /\ UNCHANGED <<cfg_vars, hw_vars, gd_fdt_blob, dbg_vars, last, sb_cmd, sb_rc,
                   panic_msg, v_vars, a_vars>>

\* rc = run_command_list(cmd, -1, 0), when it returns
SecureBootCmdReturned ==
    /\ sb_pc = "run_command_list"
    /\ \E rc \in RcCodes : sb_rc' = rc
    /\ sb_pc' = "returned"
    /\ UNCHANGED <<cfg_vars, hw_vars, gd_fdt_blob, dbg_vars, last, sb_cmd, ctrlc_disabled,
                   panic_msg, v_vars, a_vars>>

\* mutant: a successful command sequence returns to the caller
SecureBootCmdPanic_ReturnOnSuccess ==
    /\ sb_pc = "returned"
    /\ IF sb_rc = 0
       THEN sb_pc' = "caller" /\ UNCHANGED panic_msg
       ELSE sb_pc' = "panic" /\ panic_msg' = <<sb_cmd, sb_rc>>
    /\ UNCHANGED <<cfg_vars, hw_vars, gd_fdt_blob, dbg_vars, last, sb_cmd, sb_rc,
                   ctrlc_disabled, v_vars, a_vars>>

\* panic("## ERROR: \"%s\" returned (code %d) ...", cmd, rc): no return
SecureBootCmdPanic ==
    /\ sb_pc = "returned"
    /\ panic_msg' = <<sb_cmd, sb_rc>>
    /\ sb_pc' = "panic"
    /\ UNCHANGED <<cfg_vars, hw_vars, gd_fdt_blob, dbg_vars, last, sb_cmd, sb_rc,
                   ctrlc_disabled, v_vars, a_vars>>

NextLockdown ==
    \/ CliAccess
    \/ SecureBootCmdEnter
    \/ SecureBootCmdDisableCtrlc
    \/ SecureBootCmdReturned
    \/ SecureBootCmdPanic

SpecLockdown == Init /\ [][NextLockdown]_vars

(***************************************************************************)
(* Boot-argument validator: int tdx_valid_bootargs(void *fdt, const char   *)
(* *bootargs), one action per stage and per iteration of the loop of       *)
(* _tdx_valid_var_bootargs.                                                *)
(***************************************************************************)
S_nfsroot == <<"n", "f", "s">> \o S_root
S_console == <<"c", "o", "n", "s", "o", "l", "e", "=", "t", "t", "y", "m", "x", "c", "0">>
S_foobar == <<"f", "o", "o", "=", "b", "a", "r">>
S_rootdev == S_root \o <<"/", "d", "e", "v", "/", "m", "m", "c", "b", "l", "k", "0", "p", "2">>
S_ostree_path == <<"/", "o", "s", "t", "r", "e", "e", "/", "b", "o", "o", "t", ".", "0", "/", "o", "s", "/", "1">>
S_uuid == <<"1", "2", "3", "4", "-", "5", "6", "7", "8">>

\* all concatenations of at most n of the fragments
RECURSIVE Concats(_, _)
Concats(frags, n) ==
    IF n = 0 THEN {<<>>}
    ELSE LET shorter == Concats(frags, n - 1)
         IN  shorter \cup {s \o f : s \in shorter, f \in frags}

\* fragments of a required-bootargs property
ReqFrags == {<<" ">>, S_root, S_nfsroot, <<"x">>}
\* fragments of a command line, besides the required arguments themselves
CmdFrags == {<<" ">>, S_ostree, S_ostree \o <<"/", "a">>, S_root_partuuid \o <<"a", "-", "1">>, <<"x">>}

ReqStrings == Concats(ReqFrags, MaxReqFrags) \cup {S_console, S_rootdev}
CmdTails == Concats(CmdFrags, MaxCmdFrags)

\* the command lines tried against a tree whose property is req
CmdLines(req) ==
    Concats(CmdFrags \cup {req}, MaxCmdFrags)
    \cup {S_console \o <<" ">> \o S_ostree \o S_ostree_path,
          S_console \o <<" ">> \o S_foobar,
          S_rootdev \o <<" ">> \o S_root_partuuid \o S_uuid}

\* OS device trees: without the node, without the property, with it
OsTree(props) ==
    [present |-> TRUE, nodes |-> ("/chosen" :> NoProps) @@ (TDX_BOOTARGS_NODE_PATH :> props)]
OsTreeNoNode == [present |-> TRUE, nodes |-> ("/chosen" :> NoProps)]
OsTrees ==
    {OsTreeNoNode, OsTree(NoProps)}
    \cup {OsTree("required-bootargs" :> req) : req \in ReqStrings}

\* the property of the tree, NULL when the node or the property is missing
RequiredBootargs(fdt) ==
    IF fdt_path_offset(fdt, TDX_BOOTARGS_NODE_PATH) < 0 THEN NULL
    ELSE fdt_getprop(fdt, TDX_BOOTARGS_NODE_PATH, "required-bootargs")

v_frame == <<cfg_vars, hw_vars, gd_fdt_blob, dbg_vars, last, sb_vars, a_vars>>

\* mutant: a tree without the property is taken to require nothing
ValidBootargsEntry_EmptyOnMissing ==
    /\ v_pc = "caller"
    /\ \E fdt \in OsTrees :
       \E bootargs \in (IF RequiredBootargs(fdt) = NULL
                        THEN CmdTails ELSE CmdLines(RequiredBootargs(fdt))) :
          /\ v_fdt' = fdt
          /\ v_bootargs' = bootargs
          /\ IF fdt_path_offset(fdt, TDX_BOOTARGS_NODE_PATH) < 0
             THEN /\ v_ret' = 0 /\ v_pc' = "done"
                  /\ v_diag' = [kind |-> "NodeMissing", sub |-> <<>>]
                  /\ UNCHANGED <<v_req, v_args>>
             ELSE /\ v_req' = IF fdt_getprop(fdt, TDX_BOOTARGS_NODE_PATH, "required-bootargs") = NULL
                              THEN <<>>
                              ELSE fdt_getprop(fdt, TDX_BOOTARGS_NODE_PATH, "required-bootargs")
                  /\ v_args' = bootargs
                  /\ v_pc' = "first_part"
                  /\ UNCHANGED <<v_ret, v_diag>>
    /\ UNCHANGED v_frame

\* entry: the node and property lookups and the strnlen
ValidBootargsEntry ==
    /\ v_pc = "caller"
    /\ \E fdt \in OsTrees :
       \E bootargs \in (IF RequiredBootargs(fdt) = NULL
                        THEN CmdTails ELSE CmdLines(RequiredBootargs(fdt))) :
          /\ v_fdt' = fdt
          /\ v_bootargs' = bootargs
          /\ IF fdt_path_offset(fdt, TDX_BOOTARGS_NODE_PATH) < 0
             THEN /\ v_ret' = 0 /\ v_pc' = "done"
                  /\ v_diag' = [kind |-> "NodeMissing", sub |-> <<>>]
                  /\ UNCHANGED <<v_req, v_args>>
             ELSE IF fdt_getprop(fdt, TDX_BOOTARGS_NODE_PATH, "required-bootargs") = NULL
             THEN /\ v_ret' = 0 /\ v_pc' = "done"
                  /\ v_diag' = [kind |-> "PropertyMissing", sub |-> <<>>]
                  /\ UNCHANGED <<v_req, v_args>>
             ELSE /\ v_req' = fdt_getprop(fdt, TDX_BOOTARGS_NODE_PATH, "required-bootargs")
                  /\ v_args' = bootargs
                  /\ v_pc' = "first_part"
                  /\ UNCHANGED <<v_ret, v_diag>>
    /\ UNCHANGED v_frame

\* if (req_len) { ... }, and fixpart_invalid
ValidBootargsFirstPart ==
    /\ v_pc = "first_part"
    /\ LET r == FirstPart(v_args, v_req)
       IN  IF r.ok
           THEN /\ v_args' = r.args /\ v_pc' = "second_part"
                /\ UNCHANGED <<v_ret, v_diag>>
           ELSE /\ v_ret' = 0 /\ v_pc' = "done"
                /\ v_diag' = [kind |-> "FixedPartMismatch", sub |-> skip_spaces(v_bootargs)]
                /\ UNCHANGED v_args
    /\ UNCHANGED <<v_fdt, v_bootargs, v_req>>
    /\ UNCHANGED v_frame

\* if (*args) { ... }, and fixpart_invalid
ValidBootargsSecondPart ==
    /\ v_pc = "second_part"
    /\ LET r == SecondPart(v_args, v_req)
       IN  IF r.ok
           THEN /\ v_args' = r.args /\ v_pc' = "var_bootargs"
                /\ UNCHANGED <<v_ret, v_diag>>
           ELSE /\ v_ret' = 0 /\ v_pc' = "done"
                /\ v_diag' = [kind |-> "FixedPartMismatch", sub |-> skip_spaces(v_bootargs)]
                /\ UNCHANGED v_args
    /\ UNCHANGED <<v_fdt, v_bootargs, v_req>>
    /\ UNCHANGED v_frame

\* one iteration of while (*args), and varpart_invalid
ValidBootargsVarIter ==
    /\ v_pc = "var_bootargs"
    /\ Deref(v_args) # NUL
    /\ LET r == VarBootargsIter(v_args, v_req)
       IN  IF r.ok
           THEN /\ v_args' = r.args
                /\ UNCHANGED <<v_pc, v_ret, v_diag>>
           ELSE /\ v_ret' = 0 /\ v_pc' = "done"
                /\ v_diag' = [kind |-> r.kind, sub |-> r.sub]
                /\ UNCHANGED v_args
    /\ UNCHANGED <<v_fdt, v_bootargs, v_req>>
    /\ UNCHANGED v_frame

\* the loop ends: return 1
ValidBootargsVarDone ==
    /\ v_pc = "var_bootargs"
    /\ Deref(v_args) = NUL
    /\ v_ret' = 1 /\ v_pc' = "done"
    /\ UNCHANGED <<v_fdt, v_bootargs, v_req, v_args, v_diag>>
    /\ UNCHANGED v_frame

InitBootargs ==
    /\ CONFIG_HAB = "NONE" /\ CONFIG_DBG = FALSE
    /\ imx_hab_rets = [n \in 1..MaxQueries |-> 0]
    /\ seco_ret = 0 /\ seco_lc = 0
    /\ gd_fdt_blob = NO_FDT
    /\ InitIdle

NextBootargs ==
    \/ ValidBootargsEntry
    \/ ValidBootargsFirstPart
    \/ ValidBootargsSecondPart
    \/ ValidBootargsVarIter
    \/ ValidBootargsVarDone

SpecBootargs == InitBootargs /\ [][NextBootargs]_vars

(***************************************************************************)
(* A direct call of _tdx_valid_var_bootarg(value, type, &eptr) on a value  *)
(* and a type drawn at the start.                                          *)
(***************************************************************************)
\* a digit, a hex letter, another letter, the two path characters, the
\* dash, a whitespace and a character of no class
ValAlphabet == {<<"1">>, <<"a">>, <<"x">>, <<"/">>, <<".">>, <<"-">>, <<" ">>, <<"=">>}
Values == Concats(ValAlphabet, MaxValLen) \cup {S_ostree_path, S_uuid}

NotCalled == [ret |-> -1, eptr |-> NULL]

InitVarArg ==
    /\ CONFIG_HAB = "NONE" /\ CONFIG_DBG = FALSE
    /\ imx_hab_rets = [n \in 1..MaxQueries |-> 0]
    /\ seco_ret = 0 /\ seco_lc = 0
    /\ gd_fdt_blob = NO_FDT
    /\ dbg_hab_status = "DBG_HAB_STATUS_AUTO"
    /\ dbg_hdn_status = "DBG_HDN_STATUS_AUTO"
    /\ last = Booted
    /\ sb_pc = "caller" /\ sb_cmd = "" /\ sb_rc = 0
    /\ ctrlc_disabled = FALSE /\ panic_msg = <<>>
    /\ v_pc = "caller" /\ v_fdt = NO_FDT /\ v_bootargs = <<>> /\ v_req = NULL
    /\ v_args = <<>> /\ v_ret = -1 /\ v_diag = NoDiag
    /\ a_value \in Values /\ a_type \in BPARAM_TYPES /\ a_res = NotCalled

VarArgCall ==
    /\ a_res = NotCalled
    /\ a_res' = _tdx_valid_var_bootarg(a_value, a_type)
    /\ UNCHANGED <<cfg_vars, hw_vars, gd_fdt_blob, dbg_vars, last, sb_vars, v_vars,
                   a_value, a_type>>

NextVarArg == VarArgCall

SpecVarArg == InitVarArg /\ [][NextVarArg]_vars

(***************************************************************************)
(* Claims on the trust state resolver, the CLI gate and the lockdown.      *)
(***************************************************************************)
SecbootNodePresent ==
    gd_fdt_blob.present /\ TDX_SECBOOT_NODE_PATH \in DOMAIN gd_fdt_blob.nodes

\* C1: tdx_cli_access_enabled returns 0 (disallowed) exactly when hardening
\* is enabled, the device is closed, the control tree is present, the policy
\* node exists and it has no "enable-cli-when-closed" property; otherwise it
\* returns 1, in particular whenever hardening is disabled.
C1_CliGate ==
    last.op = "tdx_cli_access_enabled" =>
        /\ last.ret \in {0, 1}
        /\ last.ret = 0 <=>
              /\ tdx_hardening_enabled = 1
              /\ tdx_secboot_dev_is_open = 0
              /\ SecbootNodePresent
              /\ "enable-cli-when-closed"
                    \notin DOMAIN gd_fdt_blob.nodes[TDX_SECBOOT_NODE_PATH]
        /\ tdx_hardening_enabled = 0 => last.ret = 1

\* C1 witness: a call of the gate that disallowed the CLI
C1_Witness ==
    /\ last.op = "tdx_cli_access_enabled"
    /\ last.ret = 0
    /\ tdx_hardening_enabled = 1 /\ tdx_secboot_dev_is_open = 0

\* C2: once tdx_secure_boot_cmd is entered control never goes back to the
\* caller; ctrl-c is disabled before the command sequence runs and stays so;
\* when the sequence returns, whatever its result code, the only next step
\* is the panic that names the sequence and the code; nothing follows it.
C2_LockdownOneWay ==
    [][ /\ (sb_pc # "caller" => sb_pc' # "caller")
        /\ (sb_pc' \in {"run_command_list", "returned", "panic"} => ctrlc_disabled')
        /\ (sb_pc = "run_command_list" /\ sb_pc' # sb_pc => sb_pc' = "returned")
        /\ (sb_pc = "returned" =>
               sb_pc' = "panic" /\ panic_msg' = <<sb_cmd, sb_rc>>)
        /\ sb_pc # "panic" ]_vars

\* C2 witness: the sequence returned success and the executor panicked
C2_Witness ==
    sb_pc = "panic" /\ sb_rc = 0 /\ panic_msg = <<sb_cmd, 0>> /\ ctrlc_disabled

\* the un-overridden trust state as a call reports it: tdx_is_closed, and
\* "hardening info" while no override is in force
RawOpenObserved(open) ==
    /\ (last.op = "tdx_is_closed" /\ Len(last.argv) = 1) => last.ret = open
    /\ (last.op = "hardening" /\ last.argv = <<"hardening", "info">>
          /\ (~CONFIG_DBG \/ dbg_hab_status = "DBG_HAB_STATUS_AUTO")) =>
            last.out[2] = (IF open = 1 THEN "open" ELSE "closed")

\* C9: with AHAB the un-overridden trust state is Closed exactly when the
\* query fails or the lifecycle code is OEM closed (0x80); every other code
\* of a successful query, recognised or not, gives Open.
C9_LifecycleMapping ==
    CONFIG_HAB = "AHAB_BOOT" =>
        LET open == IF seco_ret # 0 \/ seco_lc = 128 THEN 0 ELSE 1
        IN  /\ _tdx_secboot_dev_is_open = open
            /\ hab_utils_dev_is_open = open
            /\ RawOpenObserved(open)

\* C9 witness: tdx_is_closed reports Open for an NXP-closed (0x20) device
C9_Witness ==
    /\ CONFIG_HAB = "AHAB_BOOT" /\ seco_ret = 0 /\ seco_lc = 32
    /\ last.op = "tdx_is_closed" /\ Len(last.argv) = 1 /\ last.ret = 1

\* C10: with HAB the un-overridden trust state is Open only when the single
\* enable-bit query answers zero; a set bit and an error answer both give
\* Closed, whatever a further query would answer.
C10_HabBitMapping ==
    CONFIG_HAB = "IMX_HAB" =>
        LET open == IF imx_hab_rets[1] = 0 THEN 1 ELSE 0
        IN  /\ _tdx_secboot_dev_is_open = open
            /\ hab_utils_dev_is_open = open
            /\ RawOpenObserved(open)

\* C10 witness: the query failed, a retry would have answered "clear", and
\* tdx_is_closed reports Closed
C10_Witness ==
    /\ CONFIG_HAB = "IMX_HAB" /\ imx_hab_rets[1] < 0 /\ imx_hab_rets[2] = 0
    /\ last.op = "tdx_is_closed" /\ Len(last.argv) = 1 /\ last.ret = 0

(***************************************************************************)
(* Claims on the boot-argument validator.                                  *)
(***************************************************************************)
\* p is an initial part of s
StartsWith(s, p) ==
    Len(s) >= Len(p) /\ \A i \in 1..Len(p) : s[i] = p[i]

\* the number of whitespace characters s begins with
LeadingSpaces(s) ==
    CHOOSE k \in 0..Len(s) :
        /\ \A i \in 1..k : isspace(s[i])
        /\ k = Len(s) \/ ~isspace(s[k + 1])

\* s stripped of the whitespace it begins with
Trimmed(s) == SubSeq(s, LeadingSpaces(s) + 1, Len(s))

\* the literal c stands in req at its start or right after a whitespace
OccursAtBoundary(req, c) ==
    \E i \in 1..(Len(req) - Len(c) + 1) :
        /\ SubSeq(req, i, i + Len(c) - 1) = c
        /\ i = 1 \/ isspace(req[i - 1])

FixedPartFailure ==
    v_pc' = "done" /\ v_ret' = 0 /\ v_diag'.kind = "FixedPartMismatch"

\* C3 as claimed: an argument that selects an entry with a conflict literal
\* and passes its value check fails with ConflictingArgument if and only if
\* the literal stands at the start of the required arguments or right after
\* a whitespace anywhere in them.
C3_ConflictAnywhere ==
    [][ (/\ v_pc = "var_bootargs" /\ Deref(v_args) # NUL
         /\ MatchSpec(v_args, 1) <= BOOTARG_SPEC_LEN
         /\ bootarg_spec[MatchSpec(v_args, 1)].conflict # NULL
         /\ _tdx_valid_var_bootarg(
               Advance(v_args, Len(bootarg_spec[MatchSpec(v_args, 1)].param)),
               bootarg_spec[MatchSpec(v_args, 1)].type).ret = 1)
        => ((v_pc' = "done" /\ v_ret' = 0 /\ v_diag'.kind = "ConflictingArgument")
              <=> OccursAtBoundary(v_req, bootarg_spec[MatchSpec(v_args, 1)].conflict)) ]_vars

\* C4: with non-empty required arguments, the first stage fails with the
\* fixed-part diagnostic, without going on to the variable part, when the
\* command line stripped of leading whitespace does not start with them;
\* when it does, the stage passes and leaves what follows them.
C4_FixedPart ==
    [][ (v_pc = "first_part" /\ Len(v_req) > 0) =>
          IF StartsWith(Trimmed(v_bootargs), v_req)
          THEN /\ v_pc' = "second_part"
               /\ v_args' = SubSeq(Trimmed(v_bootargs), Len(v_req) + 1, Len(Trimmed(v_bootargs)))
               /\ v_ret' = v_ret /\ v_diag' = NoDiag
          ELSE FixedPartFailure ]_vars

\* C4 witness: a command line with leading whitespace that does not start
\* with the required arguments was refused at the first stage
C4_Witness ==
    /\ v_pc = "done" /\ v_diag.kind = "FixedPartMismatch" /\ v_ret = 0
    /\ Len(v_req) > 0 /\ isspace(Deref(v_bootargs))
    /\ ~StartsWith(Trimmed(v_bootargs), v_req)

\* C5 as claimed: for every required-arguments string, the empty one too,
\* input left after the fixed part must begin with whitespace, else the
\* fixed-part failure; the whitespace is skipped.
C5_BoundaryAlways ==
    [][ v_pc = "second_part" =>
          IF Len(v_args) > 0 /\ ~isspace(v_args[1])
          THEN FixedPartFailure
          ELSE v_pc' = "var_bootargs" /\ v_args' = Trimmed(v_args) ]_vars

\* C5 amended: input left after a non-empty fixed part must begin with
\* whitespace, else the fixed-part failure; with empty required arguments
\* no boundary is asked for; in both cases all whitespace is skipped before
\* the variable part.
C5_Boundary ==
    [][ v_pc = "second_part" =>
          IF Len(v_req) > 0 /\ Len(v_args) > 0 /\ ~isspace(v_args[1])
          THEN FixedPartFailure
          ELSE /\ v_pc' = "var_bootargs" /\ v_args' = Trimmed(v_args)
               /\ v_ret' = v_ret /\ v_diag' = NoDiag ]_vars

\* C5 witness: the command line starts with the non-empty required
\* arguments, goes on without whitespace, and was refused
C5_Witness ==
    /\ v_pc = "done" /\ v_diag.kind = "FixedPartMismatch" /\ v_ret = 0
    /\ Len(v_req) > 0
    /\ StartsWith(Trimmed(v_bootargs), v_req)
    /\ Len(Trimmed(v_bootargs)) > Len(v_req)
    /\ ~isspace(Trimmed(v_bootargs)[Len(v_req) + 1])

\* the entries of the table whose param stands at the start of args
Matching(args) ==
    {i \in 1..Len(bootarg_spec) : StartsWith(args, bootarg_spec[i].param)}

\* C6: each iteration selects the first entry of the table whose param
\* stands at the current position and decides by it alone: a failed value
\* check is a GrammarMismatch, never a fallback to another entry; when no
\* entry matches the failure is UnexpectedArgument with the text at the
\* current position (its first 16 characters).
C6_FirstMatch ==
    [][ (v_pc = "var_bootargs" /\ Deref(v_args) # NUL) =>
          IF Matching(v_args) = {}
          THEN /\ v_pc' = "done" /\ v_ret' = 0
               /\ v_diag'.kind = "UnexpectedArgument"
               /\ v_diag'.sub = SubSeq(v_args, 1, IF Len(v_args) < 16 THEN Len(v_args) ELSE 16)
          ELSE LET bi == CHOOSE i \in Matching(v_args) : \A j \in Matching(v_args) : i <= j
                   e == bootarg_spec[bi]
                   r == _tdx_valid_var_bootarg(Advance(v_args, Len(e.param)), e.type)
               IN  /\ r.ret = 0 =>
                        v_pc' = "done" /\ v_ret' = 0 /\ v_diag'.kind = "GrammarMismatch"
                   /\ r.ret = 1 =>
                        \/ v_pc' = "done" /\ v_ret' = 0 /\ v_diag'.kind = "ConflictingArgument"
                        \/ v_pc' = "var_bootargs" /\ v_args' = Trimmed(r.eptr) ]_vars

\* C6 witness: scenario B, "console=ttymxc0 foo=bar" is refused as
\* UnexpectedArgument "foo=bar"
C6_Witness ==
    /\ v_pc = "done" /\ v_ret = 0
    /\ v_req = S_console /\ v_bootargs = S_console \o <<" ">> \o S_foobar
    /\ v_diag = [kind |-> "UnexpectedArgument", sub |-> S_foobar]

\* C8 as claimed: a command line equal to the stored required arguments is
\* valid, whatever they are.
C8_ExactMatchValid ==
    (v_pc = "done" /\ v_req # NULL /\ v_bootargs = v_req) => v_ret = 1

\* C8 amended: a command line equal to the stored required arguments is
\* valid provided they do not begin with whitespace.
C8_ExactMatchNoLeadingSpace ==
    (v_pc = "done" /\ v_req # NULL /\ v_bootargs = v_req /\ ~isspace(Deref(v_req)))
        => v_ret = 1 /\ v_diag = NoDiag

\* C8 witness: non-empty required arguments, the same command line, valid
C8_Witness ==
    /\ v_pc = "done" /\ v_req # NULL /\ Len(v_req) > 0
    /\ v_bootargs = v_req /\ v_ret = 1

\* the characters a value of each grammar kind may hold
KindChars(type) ==
    CASE type = "BPARAM_NONE" -> {}
      [] type = "BPARAM_INTEGER" ->
            {"0", "1", "2", "3", "4", "5", "6", "7", "8", "9"}
      [] type = "BPARAM_OSTREE_PATH" -> Digits \cup Letters \cup {"/", "."}
      [] type = "BPARAM_GENERIC_UUID" ->
            Digits \cup {"a", "b", "c", "d", "e", "f", "A", "B", "C", "D", "E", "F", "-"}

\* the length of the longest initial part of value made of the kind's characters
Consumed(value, type) ==
    CHOOSE n \in 0..Len(value) :
        /\ \A i \in 1..n : value[i] \in KindChars(type)
        /\ n = Len(value) \/ value[n + 1] \notin KindChars(type)

\* C7: the value is consumed greedily by kind (None: nothing; Integer:
\* digits; PathLike: alphanumerics, "/" and "."; HexUuid: hex digits and
\* "-"); the argument is accepted if and only if at least one character was
\* consumed unless the kind is None, and the consumed value is followed by
\* whitespace or the end of the string; an accepted call leaves eptr right
\* after the consumed value.
C7_GrammarAccept ==
    a_res # NotCalled =>
        LET n == Consumed(a_value, a_type)
            accepted == /\ (a_type = "BPARAM_NONE" \/ n >= 1)
                        /\ (n = Len(a_value) \/ isspace(a_value[n + 1]))
        IN  /\ a_res.ret = (IF accepted THEN 1 ELSE 0)
            /\ accepted => a_res.eptr = SubSeq(a_value, n + 1, Len(a_value))

\* C7 witness: scenario A, the PathLike value "/ostree/boot.0/os/1" is accepted
C7_Witness ==
    /\ a_value = S_ostree_path /\ a_type = "BPARAM_OSTREE_PATH"
    /\ a_res.ret = 1 /\ a_res.eptr = <<>>

(***************************************************************************)
(* The two public resolvers called on their own, between override          *)
(* commands.                                                               *)
(***************************************************************************)
\* int tdx_hardening_enabled(void); out holds hdn_enabled as first computed
TdxHardeningEnabled ==
    /\ Running
    /\ last' = [op |-> "tdx_hardening_enabled", argv |-> <<>>,
                ret |-> tdx_hardening_enabled, out |-> <<_tdx_hardening_enabled>>]
    /\ UNCHANGED <<cfg_vars, hw_vars, gd_fdt_blob, dbg_vars, sb_vars, v_vars, a_vars>>

\* int tdx_secboot_dev_is_open(void); out holds dev_open as first computed
TdxSecbootDevIsOpen ==
    /\ Running
    /\ last' = [op |-> "tdx_secboot_dev_is_open", argv |-> <<>>,
                ret |-> tdx_secboot_dev_is_open, out |-> <<_tdx_secboot_dev_is_open>>]
    /\ UNCHANGED <<cfg_vars, hw_vars, gd_fdt_blob, dbg_vars, sb_vars, v_vars, a_vars>>

NextOverride == Hardening \/ TdxHardeningEnabled \/ TdxSecbootDevIsOpen

SpecOverride == Init /\ [][NextOverride]_vars

(***************************************************************************)
(* Claims on the hardening policy evaluator and the debug overrides.       *)
(***************************************************************************)
\* C11: the state computed by _tdx_hardening_enabled is 1 exactly when the
\* control tree is present, has the node /chosen/toradex,secure-boot, and
\* the node has no "disabled" property, whatever the property's length;
\* otherwise it is 0; without an override it is what the public function
\* returns.
C11_HardeningEnabledIff ==
    last.op = "tdx_hardening_enabled" =>
        /\ last.out[1] \in {0, 1}
        /\ last.out[1] = 1 <=>
              /\ gd_fdt_blob.present
              /\ "/chosen/toradex,secure-boot" \in DOMAIN gd_fdt_blob.nodes
              /\ "disabled" \notin DOMAIN gd_fdt_blob.nodes["/chosen/toradex,secure-boot"]
        /\ (~CONFIG_DBG \/ dbg_hdn_status = "DBG_HDN_STATUS_AUTO") => last.ret = last.out[1]

\* C11 witness: the node exists and holds an empty "disabled" property, and
\* the computed state is 0
C11_Witness ==
    /\ last.op = "tdx_hardening_enabled"
    /\ SecbootNodePresent
    /\ "disabled" \in DOMAIN gd_fdt_blob.nodes[TDX_SECBOOT_NODE_PATH]
    /\ gd_fdt_blob.nodes[TDX_SECBOOT_NODE_PATH]["disabled"] = <<>>
    /\ last.out[1] = 0 /\ last.ret = 0

\* the words the override commands accept in a debug build, and what they store
HabWords == [auto |-> "DBG_HAB_STATUS_AUTO", open |-> "DBG_HAB_STATUS_OPEN",
             closed |-> "DBG_HAB_STATUS_CLOSED"]
HdnWords == [auto |-> "DBG_HDN_STATUS_AUTO", enabled |-> "DBG_HDN_STATUS_ENABLED",
             disabled |-> "DBG_HDN_STATUS_DISABLED"]

\* the call made by this step is an accepted setting of an override
AcceptedSet(call, subcmd, words) ==
    /\ call.op = "hardening" /\ CONFIG_DBG
    /\ Len(call.argv) >= 3 /\ call.argv[2] = subcmd
    /\ call.argv[3] \in DOMAIN words

\* C12: in every step, an accepted set-hab-status / set-hdn-status stores
\* its word and succeeds, every other command (an unrecognised or missing
\* word, a build without the overrides) is refused and leaves both stored
\* overrides as they were, and a query of tdx_secboot_dev_is_open /
\* tdx_hardening_enabled changes neither and returns the forced value when
\* the stored override forces one, and the computed value when it is Auto
\* or the build has no overrides.
C12_Override ==
    [][ /\ IF AcceptedSet(last', "set-hab-status", HabWords)
           THEN dbg_hab_status' = HabWords[last'.argv[3]] /\ last'.ret = 0
           ELSE dbg_hab_status' = dbg_hab_status
        /\ IF AcceptedSet(last', "set-hdn-status", HdnWords)
           THEN dbg_hdn_status' = HdnWords[last'.argv[3]] /\ last'.ret = 0
           ELSE dbg_hdn_status' = dbg_hdn_status
        /\ ( /\ last'.op = "hardening" /\ Len(last'.argv) >= 2
             /\ last'.argv[2] \in {"set-hab-status", "set-hdn-status"}
             /\ ~AcceptedSet(last', "set-hab-status", HabWords)
             /\ ~AcceptedSet(last', "set-hdn-status", HdnWords) )
           => last'.ret \notin {0, 1}
        /\ last'.op = "tdx_secboot_dev_is_open" =>
              last'.ret = CASE CONFIG_DBG /\ dbg_hab_status = "DBG_HAB_STATUS_OPEN" -> 1
                            [] CONFIG_DBG /\ dbg_hab_status = "DBG_HAB_STATUS_CLOSED" -> 0
                            [] OTHER -> last'.out[1]
        /\ last'.op = "tdx_hardening_enabled" =>
              last'.ret = CASE CONFIG_DBG /\ dbg_hdn_status = "DBG_HDN_STATUS_ENABLED" -> 1
                            [] CONFIG_DBG /\ dbg_hdn_status = "DBG_HDN_STATUS_DISABLED" -> 0
                            [] OTHER -> last'.out[1]
      ]_vars

\* C12 witness: the hardware says closed, the override was set to open and
\* the query returns open
C12_Witness ==
    /\ last.op = "tdx_secboot_dev_is_open"
    /\ CONFIG_DBG /\ dbg_hab_status = "DBG_HAB_STATUS_OPEN"
    /\ dbg_hdn_status = "DBG_HDN_STATUS_DISABLED"
    /\ last.out[1] = 0 /\ last.ret = 1

(***************************************************************************)
(* Property table and the tdx_secboot_get command, tdx-secboot.c.          *)
(***************************************************************************)
PROP_VAL_FALSE == 0
PROP_VAL_TRUE == 1
PROP_VAL_DYN == 255
MAX_FLAG_NAME == 5

\* the build options the static entries are computed from; CONFIG_IMX_HAB,
\* CONFIG_AHAB_BOOT and CONFIG_TDX_SECBOOT_HARDENING_DBG are CONFIG_HAB and
\* CONFIG_DBG; the hardening features are those of a build that has the
\* functions modelled above
CONFIG_ARCH_K3 == FALSE
CONFIG_TDX_SECBOOT_HARDENING == TRUE
CONFIG_TDX_CMD_WHITELIST == TRUE
CONFIG_TDX_BOOTM_PROTECTION == TRUE
CONFIG_TDX_CLI_PROTECTION == TRUE
CONFIG_TDX_BOOTARGS_PROTECTION == TRUE

\* CONFIG_IS_ENABLED(option)
CONFIG_IS_ENABLED(option) ==
    CASE option = "IMX_HAB" -> CONFIG_HAB = "IMX_HAB"
      [] option = "AHAB_BOOT" -> CONFIG_HAB = "AHAB_BOOT"
      [] option = "ARCH_K3" -> CONFIG_ARCH_K3
      [] option = "TDX_SECBOOT_HARDENING" -> CONFIG_TDX_SECBOOT_HARDENING
      [] option = "TDX_SECBOOT_HARDENING_DBG" -> CONFIG_DBG
      [] option = "TDX_CMD_WHITELIST" -> CONFIG_TDX_CMD_WHITELIST
      [] option = "TDX_BOOTM_PROTECTION" -> CONFIG_TDX_BOOTM_PROTECTION
      [] option = "TDX_CLI_PROTECTION" -> CONFIG_TDX_CLI_PROTECTION
      [] option = "TDX_BOOTARGS_PROTECTION" -> CONFIG_TDX_BOOTARGS_PROTECTION

\* static const struct secboot_prop secboot_props[]: name, flag, and the
\* initialiser of value: PROP_VAL_DYN (dyn), or PROP_VAL_TRUE when one of
\* the options of any (if there are some) and all those of all are enabled
secboot_props ==
    << [name |-> "dev.closed", flag |-> <<"c", "l", "o">>,
        dyn |-> TRUE, any |-> {}, all |-> {}],
       [name |-> "dev.closed-raw", flag |-> <<"c", "l", "o", "r">>,
        dyn |-> TRUE, any |-> {}, all |-> {}],
       [name |-> "hdn.enabled", flag |-> <<"h", "d", "n">>,
        dyn |-> TRUE, any |-> {}, all |-> {}],
       [name |-> "bld.secboot", flag |-> <<"s", "e", "c">>,
        dyn |-> FALSE, any |-> {"IMX_HAB", "AHAB_BOOT", "ARCH_K3"}, all |-> {}],
       [name |-> "bld.hdn.all", flag |-> <<"b", "h", "d", "n">>,
        dyn |-> FALSE, any |-> {},
        all |-> {"TDX_SECBOOT_HARDENING", "TDX_CMD_WHITELIST", "TDX_BOOTM_PROTECTION",
                 "TDX_CLI_PROTECTION", "TDX_BOOTARGS_PROTECTION"}],
       [name |-> "bld.hdn.dbg", flag |-> <<"b", "h", "d", "b">>,
        dyn |-> FALSE, any |-> {},
        all |-> {"TDX_SECBOOT_HARDENING", "TDX_SECBOOT_HARDENING_DBG"}],
       [name |-> "bld.hdn.whitelist", flag |-> <<"b", "w", "l">>,
        dyn |-> FALSE, any |-> {}, all |-> {"TDX_CMD_WHITELIST"}],
       [name |-> "bld.hdn.bootm", flag |-> <<"b", "b", "m", "p">>,
        dyn |-> FALSE, any |-> {}, all |-> {"TDX_BOOTM_PROTECTION"}],
       [name |-> "bld.hdn.cli", flag |-> <<"b", "c", "l", "p">>,
        dyn |-> FALSE, any |-> {}, all |-> {"TDX_CLI_PROTECTION"}],
       [name |-> "bld.hdn.bootargs", flag |-> <<"b", "b", "a", "p">>,
        dyn |-> FALSE, any |-> {}, all |-> {"TDX_BOOTARGS_PROTECTION"}] >>

\* PropValue(index) in this build
PropValue(index) ==
    LET p == secboot_props[index]
    IN  IF p.dyn THEN PROP_VAL_DYN
        ELSE IF /\ (p.any = {} \/ \E option \in p.any : CONFIG_IS_ENABLED(option))
                /\ \A option \in p.all : CONFIG_IS_ENABLED(option)
             THEN PROP_VAL_TRUE
             ELSE PROP_VAL_FALSE

SECBOOT_PROPS_LEN == Len(secboot_props)

\* the C operator !
Not(x) == IF x = 0 THEN 1 ELSE 0

\* the value of an int no statement has assigned; never read by the callers
UNASSIGNED == -1

RECURSIVE _secboot_get_prop_RawOverridden(_, _)
RECURSIVE _secboot_get_prop_UnknownOnFailure(_, _)
RECURSIVE _secboot_get_prop(_, _)

\* mutant: dev.closed-raw goes through the overridden resolver
_secboot_get_prop_RawOverridden(prop, index) ==
    IF index > SECBOOT_PROPS_LEN THEN [ret |-> 1, val |-> 255]
    ELSE IF prop # secboot_props[index].name
    THEN _secboot_get_prop_RawOverridden(prop, index + 1)
    ELSE IF PropValue(index) = PROP_VAL_DYN
    THEN IF prop = "dev.closed" THEN [ret |-> 0, val |-> Not(tdx_secboot_dev_is_open)]
         ELSE IF prop = "dev.closed-raw" THEN [ret |-> 0, val |-> Not(tdx_secboot_dev_is_open)]
         ELSE IF prop = "hdn.enabled" THEN [ret |-> 0, val |-> tdx_hardening_enabled]
         ELSE [ret |-> 1, val |-> UNASSIGNED]
    ELSE [ret |-> 0, val |-> PropValue(index)]

\* mutant: a failed hardware query makes the device-closed properties unknown
_secboot_get_prop_UnknownOnFailure(prop, index) ==
    IF index > SECBOOT_PROPS_LEN THEN [ret |-> 1, val |-> 255]
    ELSE IF prop # secboot_props[index].name
    THEN _secboot_get_prop_UnknownOnFailure(prop, index + 1)
    ELSE IF PropValue(index) = PROP_VAL_DYN
    THEN IF prop \in {"dev.closed", "dev.closed-raw"}
            /\ \/ CONFIG_HAB = "IMX_HAB" /\ imx_hab_is_enabled(1) < 0
               \/ CONFIG_HAB = "AHAB_BOOT" /\ seco_ret # 0
         THEN [ret |-> 1, val |-> UNASSIGNED]
         ELSE IF prop = "dev.closed" THEN [ret |-> 0, val |-> Not(tdx_secboot_dev_is_open)]
         ELSE IF prop = "dev.closed-raw" THEN [ret |-> 0, val |-> Not(_tdx_secboot_dev_is_open)]
         ELSE IF prop = "hdn.enabled" THEN [ret |-> 0, val |-> tdx_hardening_enabled]
         ELSE [ret |-> 1, val |-> UNASSIGNED]
    ELSE [ret |-> 0, val |-> PropValue(index)]

\* static int _secboot_get_prop(const char *prop, int *val): the for loop
\* from index on; ret and *val
_secboot_get_prop(prop, index) ==
    IF index > SECBOOT_PROPS_LEN THEN [ret |-> 1, val |-> 255]
    ELSE IF prop # secboot_props[index].name
    THEN _secboot_get_prop(prop, index + 1)
    ELSE IF PropValue(index) = PROP_VAL_DYN
    THEN IF prop = "dev.closed" THEN [ret |-> 0, val |-> Not(tdx_secboot_dev_is_open)]
         ELSE IF prop = "dev.closed-raw" THEN [ret |-> 0, val |-> Not(_tdx_secboot_dev_is_open)]
         ELSE IF prop = "hdn.enabled" THEN [ret |-> 0, val |-> tdx_hardening_enabled]
         ELSE [ret |-> 1, val |-> UNASSIGNED]
    ELSE [ret |-> 0, val |-> PropValue(index)]

\* env_set_ulong(): the value printed with "%lu"
RECURSIVE ULongStr(_)
ULongStr(n) ==
    LET digit == <<"0", "1", "2", "3", "4", "5", "6", "7", "8", "9">>
    IN  IF n < 10 THEN <<digit[n + 1]>>
        ELSE ULongStr(n \div 10) \o <<digit[(n % 10) + 1]>>

\* ret == 0 ? (val ? '+' : '-') : '?'
FlagSign(r) == IF r.ret = 0 THEN (IF r.val # 0 THEN "+" ELSE "-") ELSE "?"

RECURSIVE FlagsBuf_SpaceFirst(_, _)
RECURSIVE FlagsBuf(_, _)

\* mutant: the separator is written before every token, the first too
FlagsBuf_SpaceFirst(index, buf) ==
    IF index > SECBOOT_PROPS_LEN THEN buf
    ELSE LET r == _secboot_get_prop(secboot_props[index].name, 1)
         IN  FlagsBuf_SpaceFirst(index + 1,
                 buf \o <<" ">> \o secboot_props[index].flag \o <<FlagSign(r)>>)

\* the for loop of "flags" from index on, buf being what ptr has passed
FlagsBuf(index, buf) ==
    IF index > SECBOOT_PROPS_LEN THEN buf
    ELSE LET r == _secboot_get_prop(secboot_props[index].name, 1)
             sep == IF index > 1 THEN <<" ">> ELSE <<>>
         IN  FlagsBuf(index + 1, buf \o sep \o secboot_props[index].flag \o <<FlagSign(r)>>)

\* the lines "list" prints
ListLines ==
    [index \in 1..SECBOOT_PROPS_LEN |->
        LET r == _secboot_get_prop(secboot_props[index].name, 1)
        IN  [name |-> secboot_props[index].name, flag |-> secboot_props[index].flag,
             text |-> IF r.ret = 0 THEN (IF r.val # 0 THEN "1" ELSE "0") ELSE "unknown"]]

\* mutant: an unknown property is reported as a failed command
do_secboot_get_UnknownFails(argv, calloc_ok) ==
    LET argc == Len(argv)
        nothing == [ret |-> CMD_RET.SUCCESS, out |-> <<>>, env |-> <<>>]
    IN  IF argc <= 1 THEN nothing
        ELSE IF argc > 3 THEN [nothing EXCEPT !.ret = CMD_RET.USAGE]
        ELSE LET prop == argv[2]
                 name == IF argc > 2 THEN argv[3] ELSE "NULL"
             IN  IF name = "NULL" /\ prop = "list"
                 THEN [nothing EXCEPT !.out = ListLines]
                 ELSE IF prop = "flags"
                 THEN IF ~calloc_ok THEN [nothing EXCEPT !.ret = CMD_RET.FAILURE]
                      ELSE LET buf == FlagsBuf(1, <<>>)
                           IN  IF name # "NULL"
                               THEN [nothing EXCEPT !.env = <<[name |-> name, value |-> buf]>>]
                               ELSE [nothing EXCEPT !.out = <<buf>>]
                 ELSE LET r == _secboot_get_prop(prop, 1)
                      IN  IF r.ret # 0
                          THEN [nothing EXCEPT !.ret = CMD_RET.FAILURE, !.out = <<[unknown |-> prop]>>]
                          ELSE IF name # "NULL"
                          THEN [nothing EXCEPT !.env = <<[name |-> name, value |-> ULongStr(r.val)]>>]
                          ELSE [nothing EXCEPT !.out = <<[name |-> prop, val |-> r.val]>>]

\* static int do_secboot_get(cmdtp, flag, argc, argv), argv[1] =
\* "tdx_secboot_get"; calloc_ok: whether calloc() gives a buffer. What it
\* returns, what it prints and the environment variables it sets.
do_secboot_get(argv, calloc_ok) ==
    LET argc == Len(argv)
        nothing == [ret |-> CMD_RET.SUCCESS, out |-> <<>>, env |-> <<>>]
    IN  IF argc <= 1 THEN nothing
        ELSE IF argc > 3 THEN [nothing EXCEPT !.ret = CMD_RET.USAGE]
        ELSE LET prop == argv[2]
                 name == IF argc > 2 THEN argv[3] ELSE "NULL"
             IN  IF name = "NULL" /\ prop = "list"
                 THEN [nothing EXCEPT !.out = ListLines]
                 ELSE IF prop = "flags"
                 THEN IF ~calloc_ok THEN [nothing EXCEPT !.ret = CMD_RET.FAILURE]
                      ELSE LET buf == FlagsBuf(1, <<>>)
                           IN  IF name # "NULL"
                               THEN [nothing EXCEPT !.env = <<[name |-> name, value |-> buf]>>]
                               ELSE [nothing EXCEPT !.out = <<buf>>]
                 ELSE LET r == _secboot_get_prop(prop, 1)
                      IN  IF r.ret # 0
                          THEN [nothing EXCEPT !.ret = 16, !.out = <<[unknown |-> prop]>>]
                          ELSE IF name # "NULL"
                          THEN [nothing EXCEPT !.env = <<[name |-> name, value |-> ULongStr(r.val)]>>]
                          ELSE [nothing EXCEPT !.out = <<[name |-> prop, val |-> r.val]>>]

\* command lines of tdx_secboot_get: every property of the table, names the
\* table does not have, the two subcommands, with and without a variable
PropNames == {secboot_props[i].name : i \in 1..SECBOOT_PROPS_LEN}
GetArgvs ==
    {<<"tdx_secboot_get">>, <<"tdx_secboot_get", "hdn.enabled", "res", "extra">>}
    \cup {<<"tdx_secboot_get", p>> : p \in PropNames \cup {"list", "flags", "bogus", "dev.close"}}
    \cup {<<"tdx_secboot_get", p, "res">> :
             p \in {"dev.closed", "bld.hdn.dbg", "list", "flags", "bogus"}}

\* control trees as far as "hdn.enabled" tells them apart
PropTrees ==
    {NO_FDT,
     [present |-> TRUE, nodes |-> ("/chosen" :> NoProps)],
     [present |-> TRUE, nodes |-> ("/chosen" :> NoProps) @@ (TDX_SECBOOT_NODE_PATH :> NoProps)],
     [present |-> TRUE,
      nodes |-> ("/chosen" :> NoProps) @@ (TDX_SECBOOT_NODE_PATH :> ("disabled" :> <<>>))]}

InitProps ==
    /\ CONFIG_DBG \in BOOLEAN
    /\ InitHw
    /\ gd_fdt_blob \in PropTrees
    /\ InitIdle

SecbootGet ==
    /\ Running
    /\ \E argv \in GetArgvs :
       \* calloc() is called by "flags" alone
       \E calloc_ok \in (IF Len(argv) \in {2, 3} /\ argv[2] = "flags"
                          THEN BOOLEAN ELSE {TRUE}) :
          \* ret, out and env of the call
          last' = [op |-> "tdx_secboot_get", argv |-> argv]
                      @@ do_secboot_get(argv, calloc_ok)
    /\ UNCHANGED <<cfg_vars, hw_vars, gd_fdt_blob, dbg_vars, sb_vars, v_vars, a_vars>>

NextProps == Hardening \/ TdxSecbootDevIsOpen \/ SecbootGet

SpecProps == InitProps /\ [][NextProps]_vars

(***************************************************************************)
(* Claims on the property table and tdx_secboot_get.                       *)
(***************************************************************************)
\* the names the table declares
DeclaredNames ==
    {"dev.closed", "dev.closed-raw", "hdn.enabled", "bld.secboot", "bld.hdn.all",
     "bld.hdn.dbg", "bld.hdn.whitelist", "bld.hdn.bootm", "bld.hdn.cli", "bld.hdn.bootargs"}

\* the last call was tdx_secboot_get with prop and perhaps a variable
GetCalled(prop) ==
    last.op = "tdx_secboot_get" /\ Len(last.argv) \in {2, 3} /\ last.argv[2] = prop

\* the last call was a query of one property, not a subcommand
GetPropCalled ==
    /\ last.op = "tdx_secboot_get" /\ Len(last.argv) \in {2, 3}
    /\ last.argv[2] # "flags"
    /\ ~(last.argv[2] = "list" /\ Len(last.argv) = 2)

\* a successful query reported the boolean b: printed, or stored in the variable
Reported(b) ==
    /\ last.ret = 0
    /\ IF Len(last.argv) = 3
       THEN /\ last.out = <<>>
            /\ last.env = <<[name |-> last.argv[3],
                             value |-> IF b = 1 THEN <<"1">> ELSE <<"0">>]>>
       ELSE /\ last.env = <<>>
            /\ last.out = <<[name |-> last.argv[2], val |-> b]>>

\* C13: a query of a name the table declares is found and reports a boolean;
\* a query of any other name returns 16, a code that is none of success,
\* failure and usage, reports no boolean and sets no environment variable.
C13_UnknownProperty ==
    /\ 16 \notin {CMD_RET.SUCCESS, CMD_RET.FAILURE, CMD_RET.USAGE}
    /\ GetPropCalled =>
          IF last.argv[2] \in DeclaredNames
          THEN Reported(0) \/ Reported(1)
          ELSE /\ last.ret = 16
               /\ last.env = <<>>
               /\ last.out = <<[unknown |-> last.argv[2]]>>

\* C13 witness: "tdx_secboot_get bogus res" returned 16 and set nothing
C13_Witness ==
    /\ last.op = "tdx_secboot_get"
    /\ last.argv = <<"tdx_secboot_get", "bogus", "res">>
    /\ last.ret = 16 /\ last.env = <<>>

\* the token of the index-th property, from a query of that property alone
FlagToken(index) ==
    LET r == _secboot_get_prop(secboot_props[index].name, 1)
    IN  secboot_props[index].flag
            \o << IF r.ret # 0 THEN "?" ELSE IF r.val # 0 THEN "+" ELSE "-" >>

\* where the index-th token starts in the flags string
RECURSIVE TokenStart(_)
TokenStart(index) ==
    IF index = 1 THEN 1
    ELSE TokenStart(index - 1) + Len(FlagToken(index - 1)) + 1

\* the flags string a successful "flags" gave: printed, or stored in the variable
FlagsGiven == IF Len(last.argv) = 3 THEN last.env[1].value ELSE last.out[1]

\* C14: a successful "flags" gives one string, printed or stored in the
\* named variable: the tokens of the table's properties in declared order,
\* each the short code followed by "+", "-" or "?" as a query of that
\* property alone tells, one space between tokens, none at either end;
\* "flags" fails only when no buffer could be allocated, and then gives
\* nothing.
C14_ExportFlags ==
    GetCalled("flags") =>
        /\ last.ret \in {0, 1}
        /\ last.ret = 1 => last.out = <<>> /\ last.env = <<>>
        /\ last.ret = 0 =>
              /\ IF Len(last.argv) = 3
                 THEN last.out = <<>> /\ Len(last.env) = 1 /\ last.env[1].name = last.argv[3]
                 ELSE last.env = <<>> /\ Len(last.out) = 1
              /\ Len(FlagsGiven) = TokenStart(10) + Len(FlagToken(10)) - 1
              /\ \A i \in 1..10 :
                    /\ SubSeq(FlagsGiven, TokenStart(i), TokenStart(i) + Len(FlagToken(i)) - 1)
                          = FlagToken(i)
                    /\ i > 1 => FlagsGiven[TokenStart(i) - 1] = " "
              /\ Cardinality({k \in 1..Len(FlagsGiven) : FlagsGiven[k] = " "}) = 9
              /\ FlagsGiven[1] # " " /\ FlagsGiven[Len(FlagsGiven)] # " "
              /\ Len(FlagsGiven) < 10 * (MAX_FLAG_NAME + 2) + 1

\* C14 witness: a debug build with HAB, the device open, forced closed,
\* hardening off: "clo+ clor- hdn- sec+ bhdn+ bhdb+ bwl+ bbmp+ bclp+ bbap+"
C14_Witness ==
    /\ last.op = "tdx_secboot_get" /\ last.argv = <<"tdx_secboot_get", "flags">>
    /\ last.ret = 0
    /\ last.out = << <<"c", "l", "o", "+", " ", "c", "l", "o", "r", "-", " ", "h", "d", "n", "-", " ", "s", "e", "c", "+", " ", "b", "h", "d", "n", "+", " ", "b", "h", "d", "b", "+", " ", "b", "w", "l", "+", " ", "b", "b", "m", "p", "+", " ", "b", "c", "l", "p", "+", " ", "b", "b", "a", "p", "+">> >>

\* the hardware-computed trust state: open unless the HAB bit reads non-zero,
\* or the SECO query fails or gives OEM closed
HwOpen ==
    CASE CONFIG_HAB = "IMX_HAB" -> imx_hab_rets[1] = 0
      [] CONFIG_HAB = "AHAB_BOOT" -> seco_ret = 0 /\ seco_lc # 128
      [] OTHER -> TRUE

\* closed (1) or not (0), after the override of a debug build
ClosedOverridden ==
    IF CONFIG_DBG /\ dbg_hab_status = "DBG_HAB_STATUS_OPEN" THEN 0
    ELSE IF CONFIG_DBG /\ dbg_hab_status = "DBG_HAB_STATUS_CLOSED" THEN 1
    ELSE IF HwOpen THEN 0 ELSE 1

\* the sign of the first and of the second token of a flags string
CloSign(buf) == buf[4]
ClorSign(buf) == buf[10]

\* C15: whatever overrides have been set, "dev.closed-raw" is the negation
\* of the hardware-computed open state, "dev.closed" is the negation of the
\* state after the override, and the two agree when the override is Auto
\* or the build has none; the same in the flags string.
C15_RawVersusOverridden ==
    /\ GetCalled("dev.closed-raw") => Reported(IF HwOpen THEN 0 ELSE 1)
    /\ GetCalled("dev.closed") => Reported(ClosedOverridden)
    /\ (GetCalled("flags") /\ last.ret = 0) =>
          /\ ClorSign(FlagsGiven) = (IF HwOpen THEN "-" ELSE "+")
          /\ CloSign(FlagsGiven) = (IF ClosedOverridden = 1 THEN "+" ELSE "-")
          /\ (~CONFIG_DBG \/ dbg_hab_status = "DBG_HAB_STATUS_AUTO")
                => CloSign(FlagsGiven) = ClorSign(FlagsGiven)

\* C15 witness: the hardware says closed, the override forces open, and
\* "dev.closed-raw" still reports 1
C15_Witness ==
    /\ GetCalled("dev.closed-raw") /\ Reported(1)
    /\ CONFIG_DBG /\ dbg_hab_status = "DBG_HAB_STATUS_OPEN"
    /\ ~HwOpen

\* the hardware query of this build fails
HwQueryFailed ==
    \/ CONFIG_HAB = "IMX_HAB" /\ imx_hab_rets[1] < 0
    \/ CONFIG_HAB = "AHAB_BOOT" /\ seco_ret # 0

\* C16 as claimed: when the hardware query fails the resolver computes
\* closed and a query of a device-closed property gives the not-found result.
C16_UnknownOnFailure ==
    HwQueryFailed =>
        /\ last.op = "tdx_secboot_dev_is_open" => last.out[1] = 0
        /\ (GetCalled("dev.closed") \/ GetCalled("dev.closed-raw")) => last.ret = 16

\* C16 amended: when the hardware query fails the resolver computes closed,
\* and the property layer reports just that: "dev.closed-raw" is found with
\* value 1, "dev.closed" is found with value 1 unless a debug override
\* forces open, and the flags string has "clor+", never "?".
C16_ClosedOnFailure ==
    HwQueryFailed =>
        /\ last.op = "tdx_secboot_dev_is_open" => last.out[1] = 0
        /\ GetCalled("dev.closed-raw") => Reported(1)
        /\ GetCalled("dev.closed") =>
              Reported(IF CONFIG_DBG /\ dbg_hab_status = "DBG_HAB_STATUS_OPEN" THEN 0 ELSE 1)
        /\ (GetCalled("flags") /\ last.ret = 0) =>
              /\ ClorSign(FlagsGiven) = "+"
              /\ \A k \in 1..Len(FlagsGiven) : FlagsGiven[k] # "?"

\* C16 witness: the SECO query failed and "dev.closed" was printed as 1
C16_Witness ==
    /\ CONFIG_HAB = "AHAB_BOOT" /\ seco_ret # 0
    /\ last.op = "tdx_secboot_get" /\ last.argv = <<"tdx_secboot_get", "dev.closed">>
    /\ last.ret = 0 /\ last.out = <<[name |-> "dev.closed", val |-> 1]>>

(***************************************************************************)
(* The loop of _tdx_valid_var_bootargs run to its end, from every state in *)
(* which tdx_valid_bootargs enters it: the two fixed-part stages have      *)
(* passed. The code is single-threaded and synchronous, so a loop that has *)
(* a next statement executes it.                                           *)
(***************************************************************************)
InitVarLoop ==
    /\ CONFIG_HAB = "NONE" /\ CONFIG_DBG = FALSE
    /\ imx_hab_rets = [n \in 1..MaxQueries |-> 0]
    /\ seco_ret = 0 /\ seco_lc = 0
    /\ gd_fdt_blob = NO_FDT
    /\ dbg_hab_status = "DBG_HAB_STATUS_AUTO"
    /\ dbg_hdn_status = "DBG_HDN_STATUS_AUTO"
    /\ last = Booted
    /\ sb_pc = "caller" /\ sb_cmd = "" /\ sb_rc = 0
    /\ ctrlc_disabled = FALSE /\ panic_msg = <<>>
    /\ a_value = <<>> /\ a_type = "BPARAM_NONE" /\ a_res = NotCalled
    /\ \E req \in ReqStrings : \E bootargs \in CmdLines(req) :
          /\ FirstPart(bootargs, req).ok
          /\ SecondPart(FirstPart(bootargs, req).args, req).ok
          /\ v_fdt = OsTree("required-bootargs" :> req)
          /\ v_bootargs = bootargs
          /\ v_req = req
          /\ v_args = SecondPart(FirstPart(bootargs, req).args, req).args
    /\ v_pc = "var_bootargs" /\ v_ret = -1 /\ v_diag = NoDiag

NextVarLoop == ValidBootargsVarIter \/ ValidBootargsVarDone

SpecVarLoop == InitVarLoop /\ [][NextVarLoop]_vars /\ WF_vars(NextVarLoop)

\* C17: every entry of the table has a non-empty param; every iteration of
\* the variable-part loop that does not fail leaves strictly less of the
\* command line to look at, so there are at most as many iterations as the
\* variable part has characters; and a call that has reached the loop ends,
\* valid (1) or invalid (0).
C17_LoopTerminates ==
    /\ \A bi \in 1..BOOTARG_SPEC_LEN : Len(bootarg_spec[bi].param) > 0
    /\ [][ (v_pc = "var_bootargs" /\ v_pc' = "var_bootargs")
              => Len(v_args') < Len(v_args) ]_vars
    /\ (v_pc = "var_bootargs") ~> (v_pc = "done" /\ v_ret \in {0, 1})

\* C17 witness: "ostree=/a ostree=/a" with nothing required, after the
\* first iteration and before the second
C17_Witness ==
    /\ v_pc = "var_bootargs"
    /\ v_req = <<>>
    /\ v_bootargs = S_ostree \o <<"/", "a", " ">> \o S_ostree \o <<"/", "a">>
    /\ v_args = S_ostree \o <<"/", "a">>

(***************************************************************************)
(* The validator and the CLI gate of one boot, the gate consulted between  *)
(* calls of the validator, on a closed device whose control tree has no    *)
(* policy node or is absent.                                               *)
(***************************************************************************)
AbsentTrees == {NO_FDT, [present |-> TRUE, nodes |-> ("/chosen" :> NoProps)]}

InitAbsent ==
    /\ CONFIG_HAB = "IMX_HAB"
    /\ imx_hab_rets = [n \in 1..MaxQueries |-> 1]
    /\ seco_ret = 0 /\ seco_lc = 0
    /\ gd_fdt_blob \in AbsentTrees
    /\ CONFIG_DBG \in BOOLEAN
    /\ dbg_hab_status = "DBG_HAB_STATUS_AUTO"
    \* a debug build may have had "hardening set-hdn-status enabled"
    /\ dbg_hdn_status = IF CONFIG_DBG THEN "DBG_HDN_STATUS_ENABLED" ELSE "DBG_HDN_STATUS_AUTO"
    /\ last = Booted
    /\ sb_pc = "caller" /\ sb_cmd = "" /\ sb_rc = 0
    /\ ctrlc_disabled = FALSE /\ panic_msg = <<>>
    /\ v_pc = "caller" /\ v_fdt = NO_FDT /\ v_bootargs = <<>> /\ v_req = NULL
    /\ v_args = <<>> /\ v_ret = -1 /\ v_diag = NoDiag
    /\ a_value = <<>> /\ a_type = "BPARAM_NONE" /\ a_res = NotCalled

\* tdx_cli_access_enabled(), not in the middle of tdx_valid_bootargs()
CliAccessBetweenCalls == v_pc \in {"caller", "done"} /\ CliAccess

NextAbsent == NextBootargs \/ CliAccessBetweenCalls

SpecAbsent == InitAbsent /\ [][NextAbsent]_vars

\* the OS tree lacks the policy node or its "required-bootargs" property
ConfigAbsent(fdt) ==
    \/ "/chosen/toradex,secure-boot" \notin DOMAIN fdt.nodes
    \/ "required-bootargs" \notin DOMAIN fdt.nodes["/chosen/toradex,secure-boot"]

\* C18: a call of tdx_valid_bootargs on an OS tree without the node or
\* without the property ends invalid with the warning of the missing item,
\* for every command line, and none of the parsing stages runs; the CLI
\* gate asked with the control tree or its node absent returns 1 (allowed).
C18_FailClosed ==
    /\ v_pc \in {"first_part", "second_part", "var_bootargs"} => ~ConfigAbsent(v_fdt)
    /\ (v_pc = "done" /\ ConfigAbsent(v_fdt)) =>
          /\ v_ret = 0
          /\ v_diag.kind \in {"NodeMissing", "PropertyMissing"}
          /\ v_req = NULL /\ v_args = <<>>
    /\ (last.op = "tdx_cli_access_enabled" /\ ~SecbootNodePresent) => last.ret = 1

\* C18 witness: the empty command line was refused for a missing property,
\* and the gate of the closed device, hardening forced on, allowed access
\* for want of a control tree
C18_Witness ==
    /\ v_pc = "done" /\ v_bootargs = <<>> /\ v_ret = 0
    /\ v_diag.kind = "PropertyMissing"
    /\ last.op = "tdx_cli_access_enabled" /\ last.ret = 1
    /\ ~gd_fdt_blob.present
    /\ tdx_hardening_enabled = 1 /\ tdx_secboot_dev_is_open = 0

====
